---- MODULE Spec2Model ----
(***************************************************************************)
(* useChat (React hook) and callChatApi of the AI SDK, as a state machine. *)
(*                                                                         *)
(* One chat session (one SWR key) is modelled.  The SWR store holds        *)
(* messages, streamData, isLoading and error; the hook holds               *)
(* abortControllerRef.  messagesRef / streamDataRef are refreshed by an    *)
(* effect after every store update, so at the start of every asynchronous  *)
(* continuation they equal the store; the one place where the code reads   *)
(* a ref in the same synchronous block as a mutate (addToolResult calling  *)
(* triggerRequest) is modelled with the stale value.                       *)
(*                                                                         *)
(* Several hooks (handles) may use the session.  They share the SWR store; *)
(* each has its own abortControllerRef and its own initialMessages, the    *)
(* fallbackData it sees while the store holds no message list.             *)
(*                                                                         *)
(* Every call of triggerRequest that a caller operation starts runs in a   *)
(* slot of req; the automatic follow-up (the recursive call at the end of  *)
(* triggerRequest) continues in the slot of the call that issued it.       *)
(***************************************************************************)
EXTENDS Integers, Sequences, FiniteSets, TLC

\* ---------------------------------------------------------------- bounds
MaxReq == 2        \* triggerRequest call chains that may be pending at once
MaxMsgs == 3       \* longest message list
MaxEvents == 2     \* stream parts (or text chunks) read from one response
MaxData == 1       \* longest streamData array
MaxStepsOpt == 3   \* largest value of the maxSteps option
MaxCalls == 2      \* calls of append, reload and addToolResult in a run
MaxChunks == 3     \* chunks in the body of a text response
MaxFiles == 2      \* files in the FileList given to append or handleSubmit
MaxRegs == 2       \* calls of registerProvider on a registry
MaxWire == 2       \* events encoded into one response body
MaxReduce == 4     \* events reduced in one session
MaxSmooth == 3     \* chunks written to one smoothStream transform
MaxIdLen == 3      \* longest id given to languageModel, in tokens

Slots == 1..MaxReq
NULL == 0
STALE == -1        \* a ref that holds the controller of a request that ended
Handles == {1, 2}
ToolIds == {"t1", "t2"}
Chunks == {"x"}
DataVals == {"d"}

VARIABLES
    handles,                 \* the hooks that use the session
    initialMessages,         \* option initialMessages of each hook
    maxSteps,                \* option maxSteps
    keepLastMessageOnError,  \* option keepLastMessageOnError
    streamProtocol,          \* option streamProtocol: "data" or "text"
    cached,                  \* SWR [chatKey,'messages'] holds a list
    messages,                \* SWR [chatKey,'messages'] (<<>> when none)
    streamData,              \* SWR [chatKey,'streamData'] (undefined as <<>>)
    isLoading,               \* SWR [chatKey,'loading']
    error,                   \* SWR [chatKey,'error']: "undefined" or "Error"
    abortControllerRef,      \* of each hook: NULL, or the slot whose
                             \* controller it holds
    req,                     \* the pending triggerRequest calls
    calls,                   \* calls of append, reload, addToolResult so far
    last,                    \* the step just taken (observation only)
    textCall,                \* one call of callChatApi in text mode, with
                             \* the chunks and the ids that it handles
    submission,              \* the input field of the hook, and the call of
                             \* append or handleSubmit that awaits
                             \* prepareAttachmentsForRequest
    useObject,               \* one useObject hook and its request
    registry,                \* a provider registry and the last lookup
    decoder,                 \* the stream decoder and what it reads
    reducer,                 \* the response reducer and what it reduces
    smooth                   \* one smoothStream transform, what it has
                             \* received and what it has emitted

\* The state of useChat and of its requests.
chatVars == <<handles, initialMessages, maxSteps, keepLastMessageOnError,
              streamProtocol, cached, messages, streamData, isLoading, error,
              abortControllerRef, req, calls, last>>

\* The components that are modelled on their own, outside of a session.
componentVars ==
    <<textCall, submission, useObject, registry, decoder, reducer, smooth>>

vars == <<chatVars, componentVars>>

\* What no operation of useChat changes: the options of the hooks and the
\* components that are modelled on their own.
optionVars == <<handles, initialMessages, maxSteps, keepLastMessageOnError,
                streamProtocol>>

cfgVars == <<optionVars, componentVars>>

\* A component that a specification does not use.
Unused == [pc |-> "unused"]

ComponentsUnused ==
    /\ textCall = Unused
    /\ submission = Unused
    /\ useObject = Unused
    /\ registry = Unused
    /\ decoder = Unused
    /\ reducer = Unused
    /\ smooth = Unused

\* What the steps of each component leave as it is.
textFrame ==
    <<chatVars, submission, useObject, registry, decoder, reducer, smooth>>
submissionFrame == <<textCall, useObject, registry, decoder, reducer, smooth>>
objectFrame ==
    <<chatVars, textCall, submission, registry, decoder, reducer, smooth>>
registryFrame ==
    <<chatVars, textCall, submission, useObject, decoder, reducer, smooth>>
decoderFrame ==
    <<chatVars, textCall, submission, useObject, registry, reducer, smooth>>
reducerFrame ==
    <<chatVars, textCall, submission, useObject, registry, decoder, smooth>>
smoothFrame ==
    <<chatVars, textCall, submission, useObject, registry, decoder, reducer>>

\* ------------------------------------------------------------- messages
\* The id of a message is "id" when the message has one and "undefined"
\* when it has none; which id it is, is not modelled here.
\* experimental_attachments is <<>> when the message has none (undefined).
UserMessage ==
    [id |-> "id", role |-> "user", content |-> <<>>,
     toolInvocations |-> <<>>, experimental_attachments |-> <<>>]

AssistantMessage(c) ==
    [id |-> "id", role |-> "assistant", content |-> c,
     toolInvocations |-> <<>>, experimental_attachments |-> <<>>]

\* The messages given to append: with an id, or without one.
CreateMessages ==
    {[UserMessage EXCEPT !.id = i] : i \in {"undefined", "id"}}

\* The message is added as it was given.
WithId_AsGiven(message) == message

\* append: if (!message.id) message.id = generateId().
WithId(message) ==
    IF message.id = "undefined" THEN [message EXCEPT !.id = "id"]
    ELSE message

\* The lists given as initialMessages.
InitialLists == {<<>>, <<UserMessage>>}

\* messages of useSWR as hook h sees it: the list of the store, or the
\* fallbackData of the hook; messagesRef.current of the hook follows it.
MessagesOf(h) == IF cached THEN messages ELSE initialMessages[h]

Last(s) == s[Len(s)]
Front(s) == SubSeq(s, 1, Len(s) - 1)

\* Check if the message is an assistant message with completed tool calls.
IsAssistantMessageWithCompletedToolCalls(message) ==
    /\ message.role = "assistant"
    /\ Len(message.toolInvocations) > 0
    /\ \A i \in DOMAIN message.toolInvocations :
           message.toolInvocations[i].result

\* Only the last message is counted.
CountTrailingAssistantMessages_LastOnly(msgs) ==
    IF Len(msgs) = 0 \/ Last(msgs).role # "assistant" THEN 0 ELSE 1

\* The number of trailing assistant messages in the array.
RECURSIVE CountTrailingAssistantMessages(_)
CountTrailingAssistantMessages(msgs) ==
    IF Len(msgs) = 0 \/ Last(msgs).role # "assistant"
    THEN 0
    ELSE 1 + CountTrailingAssistantMessages(Front(msgs))

\* The auto-submit without the test for new messages.
AutoSubmit_NoNewMessagesTest(msgs, messageCount) ==
    /\ Len(msgs) > 0
    /\ maxSteps > 1
    /\ IsAssistantMessageWithCompletedToolCalls(Last(msgs))
    /\ CountTrailingAssistantMessages(msgs) < maxSteps

\* The condition of the auto-submit at the end of triggerRequest.
AutoSubmit(msgs, messageCount) ==
    /\ Len(msgs) > messageCount
    /\ Len(msgs) > 0
    /\ maxSteps > 1
    /\ IsAssistantMessageWithCompletedToolCalls(Last(msgs))
    /\ CountTrailingAssistantMessages(msgs) < maxSteps

\* No error is taken for an abort error.
IsAbortError_Never(err) == FALSE

\* catch (err): abort errors are ignored as they are expected.
IsAbortError(err) == err = "AbortError"

\* restoreMessagesOnFailure of getStreamedResponse: the list to publish.
RestoreMessagesOnFailure(previousMessages, current) ==
    IF ~keepLastMessageOnError THEN previousMessages ELSE current

\* ------------------------------------------------------ response reducer
\* The state of the reduction of one response: the messages of the response,
\* whether the last of them is still in progress, and the data received.
Events ==
    [type : {"text-delta"}, v : Chunks]
        \cup [type : {"tool-call", "tool-result"}, v : ToolIds]
        \cup [type : {"data"}, v : DataVals]

HasInvocation(m, id) ==
    \E i \in DOMAIN m.toolInvocations : m.toolInvocations[i].toolCallId = id

\* The result is attached to every invocation of the message.
WithResult_AnyId(m, id) ==
    [m EXCEPT !.toolInvocations =
        [i \in DOMAIN m.toolInvocations |->
            [m.toolInvocations[i] EXCEPT !.result = TRUE]]]

WithResult(m, id) ==
    [m EXCEPT !.toolInvocations =
        [i \in DOMAIN m.toolInvocations |->
            IF m.toolInvocations[i].toolCallId = id
            THEN [m.toolInvocations[i] EXCEPT !.result = TRUE]
            ELSE m.toolInvocations[i]]]

\* A message is created and appended whether or not one is in progress.
OpenMessage_AlwaysNew(st) ==
    [st EXCEPT !.merged = Append(@, AssistantMessage(<<>>)),
               !.open = TRUE]

\* The in-progress assistant message exists after this; it is created
\* (empty content) and appended when there is none.
OpenMessage(st) ==
    IF st.open THEN st
    ELSE [st EXCEPT !.merged = Append(@, AssistantMessage(<<>>)),
                    !.open = TRUE]

ReduceEvent(st, ev) ==
    CASE ev.type = "text-delta" ->
            LET o == OpenMessage(st) IN
            [o EXCEPT !.merged[Len(o.merged)].content = Append(@, ev.v)]
      [] ev.type = "tool-call" ->
            LET o == OpenMessage(st) IN
            IF HasInvocation(Last(o.merged), ev.v) THEN o
            ELSE [o EXCEPT !.merged[Len(o.merged)].toolInvocations =
                      Append(@, [toolCallId |-> ev.v, result |-> FALSE])]
      [] ev.type = "tool-result" ->
            [st EXCEPT !.merged =
                [i \in DOMAIN st.merged |-> WithResult(st.merged[i], ev.v)]]
      [] ev.type = "data" ->
            [st EXCEPT !.data = Append(@, ev.v)]

\* Text protocol: the body is one running text of one assistant message.
ReduceTextChunk(st, chunk) ==
    LET o == OpenMessage(st) IN
    [o EXCEPT !.merged[Len(o.merged)].content = Append(@, chunk)]

\* ------------------------------------------------------------- requests
\* Only the last message is sent.
ConstructedMessagesPayload_LastOnly(msgs) ==
    IF msgs = <<>> THEN <<>>
    ELSE <<[role |-> Last(msgs).role, content |-> Last(msgs).content,
            experimental_attachments |-> Last(msgs).experimental_attachments,
            toolInvocations |-> Last(msgs).toolInvocations]>>

\* constructedMessagesPayload of getStreamedResponse: the fields of every
\* message of chatRequest.messages that are sent.
ConstructedMessagesPayload(msgs) ==
    [i \in DOMAIN msgs |->
        [role |-> msgs[i].role, content |-> msgs[i].content,
         experimental_attachments |-> msgs[i].experimental_attachments,
         toolInvocations |-> msgs[i].toolInvocations]]

IdleReq ==
    [pc |-> "idle", handle |-> NULL, origin |-> "none", chain |-> "none",
     n |-> 0, solo |-> FALSE, errorBefore |-> "undefined",
     messages |-> <<>>,
     previousMessages |-> <<>>, existingData |-> <<>>, messageCount |-> 0,
     body |-> <<>>, aborted |-> FALSE, merged |-> <<>>, open |-> FALSE,
     data |-> <<>>, nev |-> 0]

\* The count starts at zero.
MessageCount_Zero(refMessages) == 0

\* const messageCount = messagesRef.current.length at the start of
\* triggerRequest.
MessageCount(refMessages) == Len(refMessages)

\* A call of triggerRequest(chatRequest) of hook h up to the fetch of
\* callChatApi: messageCount, the new AbortController, and in
\* getStreamedResponse the snapshot previousMessages, the messages of the
\* request body, and existingData.
NewReq(h, chatMessages, refMessages, refData, origin, chain, n, solo) ==
    [IdleReq EXCEPT !.pc = "fetch", !.handle = h, !.origin = origin,
                    !.chain = chain, !.n = n, !.solo = solo,
                    !.messages = chatMessages,
                    !.body = ConstructedMessagesPayload(chatMessages),
                    !.previousMessages = refMessages,
                    !.existingData = refData,
                    !.messageCount = MessageCount(refMessages)]

InFlight(r) == req[r].pc # "idle"
Busy == \E r \in Slots : InFlight(r)

\* A caller operation starts its call chain in the first free slot.
FreeSlot(r) ==
    /\ ~InFlight(r)
    /\ \A q \in Slots : q < r => InFlight(q)

\* What the step just taken was (observation only, never read by an action):
\* the operation, its hook, slot and argument, the error that was thrown,
\* whether a follow-up request was issued, whether onError was called, what
\* the call of triggerRequest (or the caller operation) returned, and the
\* call chain and messageCount of the round trip that ended.
Obs(op, h, r, arg, err, follow, onError, ret, rec) ==
    [op |-> op, handle |-> h, slot |-> r, arg |-> arg, err |-> err,
     follow |-> follow, onError |-> onError, ret |-> ret,
     origin |-> rec.origin, chain |-> rec.chain, n |-> rec.n,
     solo |-> rec.solo, errorBefore |-> rec.errorBefore,
     messageCount |-> rec.messageCount]

\* A step that ends no round trip.
Step(op, h, r, arg, rec) ==
    Obs(op, h, r, arg, "none", FALSE, FALSE, "pending", rec)

\* Another call of append, reload, addToolResult or setMessages interleaves
\* with every pending call chain.
Interleaved(rq) ==
    [q \in Slots |-> [rq[q] EXCEPT !.solo = FALSE,
                                   !.errorBefore = "undefined"]]

\* The error slot is left as it is when a request starts.
ErrorAtStart_Kept(err) == err

\* setError(undefined) at the start of triggerRequest.
ErrorAtStart(err) == "undefined"

\* triggerRequest of hook h from mutateLoading(true) to the fetch: the store
\* updates of triggerRequest and the optimistic update of
\* getStreamedResponse.
StartRequest(h, r, chatMessages, refMessages, origin, op, arg) ==
    LET new == [NewReq(h, chatMessages, refMessages, streamData, origin,
                       origin, 1, ~Busy)
                   EXCEPT !.errorBefore = IF Busy THEN "undefined" ELSE error]
    IN  /\ isLoading' = TRUE
        /\ error' = ErrorAtStart(error)
        /\ abortControllerRef' = [abortControllerRef EXCEPT ![h] = r]
        /\ messages' = chatMessages
        /\ cached' = TRUE
        /\ req' = [Interleaved(req) EXCEPT ![r] = new]
        /\ calls' = calls + 1
        /\ last' = Step(op, h, r, arg, new)
        /\ UNCHANGED <<streamData, optionVars>>

\* mutateLoading(false) at the end of the try block instead of in finally.
LoadingAtEnd_NotWhenThrown(err, follow) ==
    IF err = "none" THEN follow ELSE follow \/ isLoading

\* The return in the catch block leaves before mutateLoading(false).
LoadingAtEnd_NotWhenAborted(err, follow) ==
    IF err = "AbortError" THEN isLoading ELSE follow

\* finally { mutateLoading(false) }, then mutateLoading(true) of the
\* follow-up request if there is one.
LoadingAtEnd(err, follow) == follow

\* The auto-submit is reached after an abort error as well.
ReachesAutoSubmit_AfterAbort(ignored) == TRUE

\* return null in the catch block leaves triggerRequest before the
\* auto-submit.
ReachesAutoSubmit(ignored) == ~ignored

\* triggerRequest after processChatStream has returned or thrown: the catch
\* and finally blocks and the auto-submit, which calls triggerRequest again.
\* msgs and sdata are the store as the round trip leaves it.
EndRoundTrip(r, msgs, sdata, err, op) ==
    LET h == req[r].handle
        ignored == err # "none" /\ IsAbortError(err)
        surfaced == err # "none" /\ ~ignored
        follow == /\ ReachesAutoSubmit(ignored)
                  /\ AutoSubmit(msgs, req[r].messageCount)
        next == [NewReq(h, msgs, msgs, sdata, "auto", req[r].chain,
                        req[r].n + 1, req[r].solo)
                    EXCEPT !.errorBefore = req[r].errorBefore]
    IN  /\ messages' = msgs
        /\ streamData' = sdata
        /\ isLoading' = LoadingAtEnd(err, follow)
        /\ error' = IF follow
                    THEN ErrorAtStart(IF surfaced THEN "Error" ELSE error)
                    ELSE IF surfaced THEN "Error" ELSE error
        /\ abortControllerRef' =
               IF follow THEN [abortControllerRef EXCEPT ![h] = r]
               ELSE IF surfaced
               THEN [abortControllerRef EXCEPT
                        ![h] = IF @ = r THEN STALE ELSE @]
               ELSE [abortControllerRef EXCEPT ![h] = NULL]
        /\ req' = [req EXCEPT ![r] = IF follow THEN next ELSE IdleReq]
        /\ calls' = calls
        /\ last' = Obs(op, h, r, "-", err, follow, surfaced,
                       IF ignored THEN "null" ELSE "undefined", req[r])
        /\ UNCHANGED <<cached, cfgVars>>

\* ----------------------------------------------------- caller operations
\* append(message) through hook h: the message is added to
\* messagesRef.current.
AppendMessage(h, r) ==
    /\ FreeSlot(r)
    /\ calls < MaxCalls
    /\ Len(MessagesOf(h)) < MaxMsgs
    /\ \E message \in CreateMessages :
           StartRequest(h, r, Append(MessagesOf(h), WithId(message)),
                        MessagesOf(h), "append", "Append", message.id)
    /\ UNCHANGED componentVars

\* The last message is dropped whatever its role.
ReloadMessages_DropsLast(msgs) == Front(msgs)

\* reload: remove last assistant message and retry last user message.
ReloadMessages(msgs) ==
    IF Last(msgs).role = "assistant" THEN Front(msgs) ELSE msgs

\* reload() on a list that is not empty.
Reload(h, r) ==
    /\ FreeSlot(r)
    /\ calls < MaxCalls
    /\ Len(MessagesOf(h)) > 0
    /\ StartRequest(h, r, ReloadMessages(MessagesOf(h)), MessagesOf(h),
                    "reload", "Reload", "-")
    /\ UNCHANGED componentVars

\* reload() on an empty list returns null.
ReloadEmpty(h) ==
    /\ calls < MaxCalls
    /\ calls' = calls + 1
    /\ Len(MessagesOf(h)) = 0
    /\ last' = Obs("Reload", h, NULL, "-", "none", FALSE, FALSE, "null",
                   IdleReq)
    /\ req' = Interleaved(req)
    /\ UNCHANGED <<cached, messages, streamData, isLoading, error,
                   abortControllerRef, cfgVars>>

\* Every invocation of the last message is given the result.
UpdatedMessages_EveryInvocation(msgs, toolCallId) ==
    [i \in DOMAIN msgs |->
        IF i = Len(msgs) /\ msgs[i].role = "assistant"
        THEN [msgs[i] EXCEPT !.toolInvocations =
                 [j \in DOMAIN @ |-> [@[j] EXCEPT !.result = TRUE]]]
        ELSE msgs[i]]

\* The list addToolResult publishes: the result is set on the invocations
\* with that id of the last message, if it is an assistant message.
UpdatedMessages(msgs, toolCallId) ==
    [i \in DOMAIN msgs |->
        IF i = Len(msgs) /\ msgs[i].role = "assistant"
        THEN WithResult(msgs[i], toolCallId)
        ELSE msgs[i]]

\* The test reads the list before the update.
ToolResultSubmits_StaleList(updated) ==
    /\ Len(messages) > 0
    /\ IsAssistantMessageWithCompletedToolCalls(Last(messages))

\* The test of addToolResult before it calls triggerRequest.
ToolResultSubmits(updated) ==
    IsAssistantMessageWithCompletedToolCalls(Last(updated))

\* addToolResult({toolCallId, result}) that calls triggerRequest.  The call
\* is in the same synchronous block as the mutate, so triggerRequest and
\* getStreamedResponse still read the list before the update from
\* messagesRef.
AddToolResultSubmit(h, r, toolCallId) ==
    /\ FreeSlot(r)
    /\ calls < MaxCalls
    /\ Len(MessagesOf(h)) > 0
    /\ ToolResultSubmits(UpdatedMessages(MessagesOf(h), toolCallId))
    /\ StartRequest(h, r, UpdatedMessages(MessagesOf(h), toolCallId),
                    MessagesOf(h), "tool", "AddToolResult", toolCallId)
    /\ UNCHANGED componentVars

\* addToolResult that only publishes the list (on an empty list the test
\* of the last message throws after the mutate).
AddToolResultOnly(h, toolCallId) ==
    /\ calls < MaxCalls
    /\ calls' = calls + 1
    /\ Len(MessagesOf(h)) > 0 =>
           ~ToolResultSubmits(UpdatedMessages(MessagesOf(h), toolCallId))
    /\ messages' = UpdatedMessages(MessagesOf(h), toolCallId)
    /\ cached' = TRUE
    /\ req' = Interleaved(req)
    /\ last' = Obs("AddToolResult", h, NULL, toolCallId, "none", FALSE,
                   FALSE, "undefined", IdleReq)
    /\ UNCHANGED <<streamData, isLoading, error, abortControllerRef, cfgVars>>

\* The arguments of setMessages: a list, or a function of the current list
\* (here the one that drops the last message).
SetMessagesArgs ==
    [kind : {"list"}, v : InitialLists]
        \cup {[kind |-> "function", v |-> <<>>]}

\* The list is added to the current list.
SetMessagesValue_Concat(current, arg) ==
    IF arg.kind = "function"
    THEN IF current = <<>> THEN <<>> ELSE Front(current)
    ELSE current \o arg.v

\* setMessages: the list to publish.
SetMessagesValue(current, arg) ==
    IF arg.kind = "function"
    THEN IF current = <<>> THEN <<>> ELSE Front(current)
    ELSE arg.v

\* setMessages(messages) through hook h.
SetMessages(h, arg) ==
    /\ calls < MaxCalls
    /\ calls' = calls + 1
    /\ Len(SetMessagesValue(MessagesOf(h), arg)) <= MaxMsgs
    /\ messages' = SetMessagesValue(MessagesOf(h), arg)
    /\ cached' = TRUE
    /\ req' = Interleaved(req)
    /\ last' = Obs("SetMessages", h, NULL, arg, "none", FALSE, FALSE,
                   "undefined", IdleReq)
    /\ UNCHANGED <<streamData, isLoading, error, abortControllerRef, cfgVars>>

\* stop() through hook h: aborts the controller in abortControllerRef and
\* clears the ref.  A controller of a request that has ended aborts nothing.
Stop(h) ==
    /\ abortControllerRef[h] # NULL
    /\ abortControllerRef' = [abortControllerRef EXCEPT ![h] = NULL]
    /\ req' = [q \in Slots |->
                  [req[q] EXCEPT !.aborted =
                      @ \/ (q = abortControllerRef[h] /\ InFlight(q))]]
    /\ last' = Obs("Stop", h, abortControllerRef[h], "-", "none", FALSE,
                   FALSE, "undefined", IdleReq)
    /\ UNCHANGED <<cached, messages, streamData, isLoading, error, calls,
                   cfgVars>>

\* stop() through hook h when its abortControllerRef is null: nothing is
\* done.  The step is observed while a request is pending; at other times
\* it is a stuttering step.
StopNothing(h) ==
    /\ abortControllerRef[h] = NULL
    /\ Busy
    /\ last' = Obs("Stop", h, NULL, "-", "none", FALSE, FALSE, "undefined",
                   IdleReq)
    /\ UNCHANGED <<cached, messages, streamData, isLoading, error,
                   abortControllerRef, req, calls, cfgVars>>

\* -------------------------------------------------- callChatApi: fetch
\* fetch rejects (network failure): restoreMessagesOnFailure, then throw.
FetchFailed(r) ==
    /\ req[r].pc = "fetch" /\ ~req[r].aborted
    /\ EndRoundTrip(r,
           RestoreMessagesOnFailure(req[r].previousMessages, messages),
           streamData, "Error", "FetchFailed")

\* fetch rejects with an AbortError once the signal is aborted.
FetchAborted(r) ==
    /\ req[r].pc = "fetch" /\ req[r].aborted
    /\ EndRoundTrip(r,
           RestoreMessagesOnFailure(req[r].previousMessages, messages),
           streamData, "AbortError", "FetchAborted")

\* !response.ok: restoreMessagesOnFailure, then throw.
ResponseNotOk(r) ==
    /\ req[r].pc = "fetch" /\ ~req[r].aborted
    /\ EndRoundTrip(r,
           RestoreMessagesOnFailure(req[r].previousMessages, messages),
           streamData, "Error", "ResponseNotOk")

\* !response.body: throw.
ResponseNoBody(r) ==
    /\ req[r].pc = "fetch" /\ ~req[r].aborted
    /\ EndRoundTrip(r, messages, streamData, "Error", "ResponseNoBody")

\* The response is ok and has a body: the reader is taken.  The snapshot
\* previousMessages is only read by restoreMessagesOnFailure, which is not
\* called any more after this point.
ResponseOk(r) ==
    /\ req[r].pc = "fetch" /\ ~req[r].aborted
    /\ req' = [req EXCEPT ![r].pc = "stream", ![r].previousMessages = <<>>]
    /\ last' = Step("ResponseOk", req[r].handle, r, "-", IdleReq)
    /\ UNCHANGED <<cached, messages, streamData, isLoading, error,
                   abortControllerRef, calls, cfgVars>>

\* ------------------------------------------------- callChatApi: stream
Reduction(r) ==
    [merged |-> req[r].merged, open |-> req[r].open, data |-> req[r].data]

\* The merged messages follow the messages of the store, not those of the
\* request.
OnUpdateMessages_OntoStore(r, st) ==
    (IF Len(messages) >= Len(req[r].messages)
     THEN SubSeq(messages, 1, Len(req[r].messages))
     ELSE messages) \o st.merged

\* onUpdate(merged, data) of getStreamedResponse.
OnUpdateMessages(r, st) == req[r].messages \o st.merged
OnUpdateData(r, st) == req[r].existingData \o st.data

Fits(r, st) ==
    /\ Len(OnUpdateMessages(r, st)) <= MaxMsgs
    /\ Len(OnUpdateData(r, st)) <= MaxData

\* Data protocol: one part is read, reduced and published.
StreamPart(r, ev) ==
    /\ streamProtocol = "data"
    /\ req[r].pc = "stream" /\ ~req[r].aborted
    /\ req[r].nev < MaxEvents
    /\ LET st == ReduceEvent(Reduction(r), ev) IN
       /\ Fits(r, st)
       /\ messages' = OnUpdateMessages(r, st)
       /\ streamData' = OnUpdateData(r, st)
       /\ req' = [req EXCEPT ![r].merged = st.merged, ![r].open = st.open,
                             ![r].data = st.data, ![r].nev = @ + 1]
       /\ last' = Step("StreamPart", req[r].handle, r, ev.type, IdleReq)
    /\ UNCHANGED <<cached, isLoading, error, abortControllerRef, calls, cfgVars>>

\* Data protocol: the finish part is reduced and published, the stream ends.
StreamFinish(r) ==
    /\ streamProtocol = "data"
    /\ req[r].pc = "stream" /\ ~req[r].aborted
    /\ EndRoundTrip(r, OnUpdateMessages(r, Reduction(r)),
                    OnUpdateData(r, Reduction(r)), "none", "StreamFinish")

\* An error part, or a read of the body that fails: the reduction throws.
StreamError(r) ==
    /\ req[r].pc = "stream" /\ ~req[r].aborted
    /\ EndRoundTrip(r, messages, streamData, "Error", "StreamError")

\* The abort rolls the store back to what the request started with.
ReadAborted_RollsBack(r) ==
    /\ req[r].pc = "stream" /\ req[r].aborted
    /\ EndRoundTrip(r, req[r].messages, req[r].existingData, "AbortError",
                    "ReadAborted")

\* The read of the body rejects with an AbortError once the signal is
\* aborted.
ReadAborted(r) ==
    /\ req[r].pc = "stream" /\ req[r].aborted
    /\ EndRoundTrip(r, messages, streamData, "AbortError", "ReadAborted")

\* Text protocol: one chunk is read and published; the loop then leaves
\* when abortController() is null.
TextChunk(r, chunk) ==
    /\ streamProtocol = "text"
    /\ req[r].pc = "stream" /\ ~req[r].aborted
    /\ req[r].nev < MaxEvents
    /\ LET st == ReduceTextChunk(Reduction(r), chunk) IN
       /\ Fits(r, st)
       /\ IF abortControllerRef[req[r].handle] = NULL
          THEN EndRoundTrip(r, OnUpdateMessages(r, st),
                            req[r].existingData, "none", "TextChunk")
          ELSE /\ messages' = OnUpdateMessages(r, st)
               /\ streamData' = req[r].existingData
               /\ req' = [req EXCEPT ![r].merged = st.merged,
                                     ![r].open = st.open, ![r].nev = @ + 1]
               /\ last' = Step("TextChunk", req[r].handle, r, "-", IdleReq)
               /\ UNCHANGED <<cached, isLoading, error, abortControllerRef, calls,
                              cfgVars>>

\* Text protocol: the reader is done.
TextDone(r) ==
    /\ streamProtocol = "text"
    /\ req[r].pc = "stream" /\ ~req[r].aborted
    /\ EndRoundTrip(r, messages, streamData, "none", "TextDone")

\* ------------------------------------------------------- specification
\* Nothing is in the store and no request is pending.
EmptyStore ==
    /\ cached = FALSE
    /\ messages = <<>>
    /\ streamData = <<>>
    /\ isLoading = FALSE
    /\ error = "undefined"
    /\ abortControllerRef = [h \in Handles |-> NULL]
    /\ req = [r \in Slots |-> IdleReq]
    /\ calls = 0
    /\ last = Obs("Init", NULL, NULL, "-", "none", FALSE, FALSE,
                  "undefined", IdleReq)

\* The state after the hooks have been created, with any options.
InitStore ==
    /\ maxSteps \in 1..MaxStepsOpt
    /\ keepLastMessageOnError \in BOOLEAN
    /\ streamProtocol \in {"data", "text"}
    /\ EmptyStore
    /\ ComponentsUnused

\* No hook of useChat is used.
ChatUnused ==
    /\ handles = {1}
    /\ initialMessages = [h \in Handles |-> <<>>]
    /\ maxSteps = 1
    /\ keepLastMessageOnError = FALSE
    /\ streamProtocol = "data"
    /\ EmptyStore

\* One hook, created without initialMessages.
Init ==
    /\ handles = {1}
    /\ initialMessages = [h \in Handles |-> <<>>]
    /\ InitStore

\* The steps of the requests: the server, the network and the event loop.
RequestStep ==
    \/ \E r \in Slots : FetchFailed(r)
    \/ \E r \in Slots : FetchAborted(r)
    \/ \E r \in Slots : ResponseNotOk(r)
    \/ \E r \in Slots : ResponseNoBody(r)
    \/ \E r \in Slots : ResponseOk(r)
    \/ \E r \in Slots, ev \in Events : StreamPart(r, ev)
    \/ \E r \in Slots : StreamFinish(r)
    \/ \E r \in Slots : StreamError(r)
    \/ \E r \in Slots : ReadAborted(r)
    \/ \E r \in Slots, c \in Chunks : TextChunk(r, c)
    \/ \E r \in Slots : TextDone(r)

\* The caller may call every operation while requests are pending, so that
\* requests of the session overlap.
Next ==
    \/ \E h \in handles, r \in Slots : AppendMessage(h, r)
    \/ \E h \in handles, r \in Slots : Reload(h, r)
    \/ \E h \in handles : ReloadEmpty(h)
    \/ \E h \in handles, r \in Slots, id \in ToolIds :
           AddToolResultSubmit(h, r, id)
    \/ \E h \in handles, id \in ToolIds : AddToolResultOnly(h, id)
    \/ \E h \in handles, arg \in SetMessagesArgs : SetMessages(h, arg)
    \/ \E h \in handles : Stop(h)
    \/ RequestStep

Spec == Init /\ [][Next]_vars

\* The caller calls append, reload and addToolResult only when no request
\* is pending (it awaits the promise of the previous one); stop() and
\* setMessages may be called at any time.
NextSeq ==
    \/ (~Busy /\ \E h \in handles, r \in Slots : AppendMessage(h, r))
    \/ (~Busy /\ \E h \in handles, r \in Slots : Reload(h, r))
    \/ (~Busy /\ \E h \in handles : ReloadEmpty(h))
    \/ (~Busy /\ \E h \in handles, r \in Slots, id \in ToolIds :
                     AddToolResultSubmit(h, r, id))
    \/ (~Busy /\ \E h \in handles, id \in ToolIds : AddToolResultOnly(h, id))
    \/ \E h \in handles, arg \in SetMessagesArgs : SetMessages(h, arg)
    \/ \E h \in handles : Stop(h)
    \/ RequestStep

SpecSeq == Init /\ [][NextSeq]_vars

\* The response stream terminates and the event loop runs every
\* continuation: a pending request takes its next step.
SpecFair == Init /\ [][NextSeq]_vars /\ WF_vars(RequestStep)

\* Two hooks of the session, each with its own initialMessages.
InitHandles ==
    /\ handles = Handles
    /\ initialMessages \in [Handles -> InitialLists]
    /\ InitStore

NextHandles ==
    \/ NextSeq
    \/ \E h \in handles : StopNothing(h)

SpecHandles == InitHandles /\ [][NextHandles]_vars

\* The caller only calls append, at any time, and every response is ok and
\* ends normally.
NextAppends ==
    \/ \E h \in handles, r \in Slots : AppendMessage(h, r)
    \/ \E r \in Slots : ResponseOk(r)
    \/ \E r \in Slots, ev \in Events : StreamPart(r, ev)
    \/ \E r \in Slots : StreamFinish(r)
    \/ \E r \in Slots, c \in Chunks : TextChunk(r, c)
    \/ \E r \in Slots : TextDone(r)

SpecAppends == Init /\ [][NextAppends]_vars

\* ------------------------------- append and handleSubmit with attachments
\* append and handleSubmit await prepareAttachmentsForRequest before they
\* read messagesRef.current and call triggerRequest.  submission holds the
\* input field of the hook and the call that awaits; one call awaits at a
\* time.
NoSubmission(input) == [pc |-> "none", input |-> input]

\* The values given as experimental_attachments: nothing, a FileList whose
\* files are still to be read, an array of attachments, or something else.
AttachmentOptions ==
    {[kind |-> "undefined", files |-> <<>>], [kind |-> "other", files |-> <<>>],
     [kind |-> "Array",
      files |-> <<[name |-> "f1", contentType |-> "image/png",
                   url |-> "https://"]>>]}
        \cup {[kind |-> "FileList",
               files |-> [i \in 1..k |-> [name |-> "f" \o ToString(i),
                                          type |-> "image/png",
                                          state |-> "reading"]]] :
                 k \in 0..MaxFiles}

\* readAsDataURL: the data URL of a file that has been read.
DataUrl(file) ==
    IF file.state = "loaded" THEN "data:" \o file.name
    ELSE "undefined"

\* What prepareAttachmentsForRequest resolves to.
PrepareAttachmentsForRequest(opt) ==
    CASE opt.kind = "undefined" -> <<>>
      [] opt.kind = "Array" -> opt.files
      [] opt.kind = "FileList" ->
            [i \in DOMAIN opt.files |->
                [name |-> opt.files[i].name,
                 contentType |-> opt.files[i].type,
                 url |-> DataUrl(opt.files[i])]]

\* The promise resolves as soon as one file has been read.
AttachmentsReady_AnyLoaded(opt) ==
    \/ opt.kind \in {"undefined", "Array"}
    \/ /\ opt.kind = "FileList"
       /\ \/ opt.files = <<>>
          \/ \E i \in DOMAIN opt.files : opt.files[i].state = "loaded"

\* The promise of prepareAttachmentsForRequest resolves: at once when no
\* file is to be read, and by Promise.all when all files have been read.
AttachmentsReady(opt) ==
    \/ opt.kind \in {"undefined", "Array"}
    \/ /\ opt.kind = "FileList"
       /\ \A i \in DOMAIN opt.files : opt.files[i].state = "loaded"

\* A step of a submission that starts no request.
SubmissionStep(op, h, arg, err) ==
    /\ last' = Obs(op, h, NULL, arg, err, FALSE, FALSE,
                   IF err = "none" THEN "pending" ELSE "rejected", IdleReq)
    /\ UNCHANGED <<cached, messages, streamData, isLoading, error,
                   abortControllerRef, req, calls, optionVars,
                   submissionFrame>>

\* handleInputChange: the input field is set (here: while no call awaits
\* and no request is pending).
HandleInputChange(h, v) ==
    /\ submission.pc = "none"
    /\ ~Busy
    /\ submission.input # v
    /\ submission' = [submission EXCEPT !.input = v]
    /\ SubmissionStep("HandleInputChange", h, v, "none")

\* append(message, {experimental_attachments}) up to the await of
\* prepareAttachmentsForRequest.
AppendCall(h, message, opt) ==
    /\ submission.pc = "none"
    /\ calls < MaxCalls
    /\ submission' =
           [pc |-> "resolving", op |-> "append", handle |-> h,
            message |-> WithId(message), attachments |-> opt,
            allowEmptySubmit |-> FALSE, input |-> submission.input]
    /\ SubmissionStep("AppendCall", h, opt.kind, "none")

\* handleSubmit(event, options) up to the await of
\* prepareAttachmentsForRequest, with the input as it is now.
HandleSubmitCall(h, opt, allowEmptySubmit) ==
    /\ submission.pc = "none"
    /\ calls < MaxCalls
    /\ submission.input # "" \/ allowEmptySubmit
    /\ submission' =
           [pc |-> "resolving", op |-> "handleSubmit", handle |-> h,
            message |-> [UserMessage EXCEPT
                            !.content = IF submission.input = "" THEN <<>>
                                        ELSE <<submission.input>>],
            attachments |-> opt,
            allowEmptySubmit |-> allowEmptySubmit,
            input |-> submission.input]
    /\ SubmissionStep("HandleSubmitCall", h, opt.kind, "none")

\* handleSubmit with an empty input and without allowEmptySubmit returns.
HandleSubmitEmpty(h) ==
    /\ submission.pc = "none"
    /\ submission.input = ""
    /\ UNCHANGED submission
    /\ SubmissionStep("HandleSubmitEmpty", h, "-", "none")

\* reader.onload of file i.
FileLoaded(i) ==
    /\ submission.pc = "resolving"
    /\ submission.attachments.kind = "FileList"
    /\ i \in DOMAIN submission.attachments.files
    /\ submission.attachments.files[i].state = "reading"
    /\ submission' =
           [submission EXCEPT !.attachments.files[i].state = "loaded"]
    /\ SubmissionStep("FileLoaded", submission.handle, i, "none")

\* reader.onerror of file i: Promise.all rejects, and append or
\* handleSubmit rejects at its await.
FileError(i) ==
    /\ submission.pc = "resolving"
    /\ submission.attachments.kind = "FileList"
    /\ i \in DOMAIN submission.attachments.files
    /\ submission.attachments.files[i].state = "reading"
    /\ submission' = NoSubmission(submission.input)
    /\ SubmissionStep("FileError", submission.handle, i, "Error")

\* throw new Error('Invalid attachments type').
InvalidAttachments ==
    /\ submission.pc = "resolving"
    /\ submission.attachments.kind = "other"
    /\ submission' = NoSubmission(submission.input)
    /\ SubmissionStep("InvalidAttachments", submission.handle, "-", "Error")

\* The messages of the chatRequest of the call that awaited.
SubmittedMessages(current, sub) ==
    LET attachmentsForRequest ==
            PrepareAttachmentsForRequest(sub.attachments)
    IN  IF /\ sub.op = "handleSubmit"
           /\ sub.message.content = <<>>
           /\ attachmentsForRequest = <<>>
           /\ sub.allowEmptySubmit
        THEN current
        ELSE Append(current,
                    [sub.message EXCEPT
                        !.experimental_attachments = attachmentsForRequest])

\* The await of prepareAttachmentsForRequest returns: the message is added
\* to messagesRef.current and triggerRequest is called; handleSubmit then
\* clears the input.
SubmissionProceeds(r) ==
    /\ submission.pc = "resolving"
    /\ AttachmentsReady(submission.attachments)
    /\ FreeSlot(r)
    /\ Len(MessagesOf(submission.handle)) < MaxMsgs
    /\ StartRequest(submission.handle, r,
                    SubmittedMessages(MessagesOf(submission.handle),
                                      submission),
                    MessagesOf(submission.handle), "append",
                    "SubmissionProceeds", submission.op)
    /\ submission' =
           NoSubmission(IF submission.op = "handleSubmit" THEN ""
                        ELSE submission.input)
    /\ UNCHANGED submissionFrame

\* One hook with the data protocol; the input field is empty.
InitSubmit ==
    /\ ChatUnused
    /\ submission = NoSubmission("")
    /\ textCall = Unused /\ useObject = Unused /\ registry = Unused
    /\ decoder = Unused /\ reducer = Unused /\ smooth = Unused

NextSubmit ==
    \/ \E h \in handles, v \in {"", "x"} : HandleInputChange(h, v)
    \/ \E h \in handles, message \in CreateMessages,
          opt \in AttachmentOptions : AppendCall(h, message, opt)
    \/ \E h \in handles, opt \in AttachmentOptions, empty \in BOOLEAN :
          HandleSubmitCall(h, opt, empty)
    \/ \E h \in handles : HandleSubmitEmpty(h)
    \/ \E i \in 1..MaxFiles : FileLoaded(i)
    \/ \E i \in 1..MaxFiles : FileError(i)
    \/ InvalidAttachments
    \/ \E r \in Slots : SubmissionProceeds(r)
    \/ \E r \in Slots : FetchFailed(r)
    \/ \E r \in Slots : ResponseOk(r)
    \/ \E r \in Slots, ev \in Events : StreamPart(r, ev)
    \/ \E r \in Slots : StreamFinish(r)

SpecSubmit == InitSubmit /\ [][NextSubmit]_vars

\* ---------------------------------------------- callChatApi, text mode
\* One call of callChatApi with streamMode 'text', from the creation of
\* resultMessage to the return, with the text of the chunks and the ids
\* that generateId returns (1, 2, ...: every call returns a new one).
\* updates are the calls of onUpdate so far, read the chunks read so far.
TextChunks == {"a", "b"}

Bodies == UNION {[1..k -> TextChunks] : k \in 0..MaxChunks}

\* The chunk replaces the content.
DecodedContent_LastChunk(content, value) == value

\* resultMessage.content += decoder(value)
DecodedContent(content, value) == content \o value

InitText ==
    /\ ChatUnused
    /\ submission = Unused /\ useObject = Unused /\ registry = Unused
    /\ decoder = Unused /\ reducer = Unused /\ smooth = Unused
    /\ \E body \in Bodies :
          textCall = [pc |-> "read", body |-> body, read |-> <<>>,
                      resultMessage |-> [id |-> 1, role |-> "assistant",
                                         content |-> ""],
                      nextId |-> 2, updates |-> <<>>,
                      abortController |-> "controller"]

\* One turn of the loop: reader.read() returns a chunk; the content and the
\* id of resultMessage are set, a copy is published, and the loop is left
\* when abortController() is null.
TextRead ==
    /\ textCall.pc = "read"
    /\ textCall.body # <<>>
    /\ LET value == Head(textCall.body)
           message == [textCall.resultMessage EXCEPT
                          !.content = DecodedContent(@, value),
                          !.id = textCall.nextId]
       IN  textCall' =
               [textCall EXCEPT
                   !.body = Tail(@),
                   !.read = Append(@, value),
                   !.resultMessage = message,
                   !.nextId = @ + 1,
                   !.updates = Append(@, [merged |-> <<message>>,
                                          data |-> <<>>]),
                   !.pc = IF textCall.abortController = "null"
                          THEN "returned" ELSE "read"]
    /\ UNCHANGED textFrame

\* reader.read() returns done: the loop is left and the call returns.
TextEnd ==
    /\ textCall.pc = "read"
    /\ textCall.body = <<>>
    /\ textCall' = [textCall EXCEPT !.pc = "returned"]
    /\ UNCHANGED textFrame

\* stop() of the hook while the call reads: abortController() is null from
\* now on.
TextStop ==
    /\ textCall.pc = "read"
    /\ textCall.abortController = "controller"
    /\ textCall' = [textCall EXCEPT !.abortController = "null"]
    /\ UNCHANGED textFrame

NextText == TextRead \/ TextEnd \/ TextStop

SpecText == InitText /\ [][NextText]_vars

\* ------------------------------------------------------------ useObject
\* One useObject hook.  data is the object of the SWR store, error and
\* isLoading are the states of the hook; pc, aborted, accumulatedText and
\* latestObject belong to the call of setInput (one call at a time); op is
\* the operation just called.  The text of the response is a sequence of
\* chunks: "v" is text after which more of the object is confirmed, "w" is
\* text after which no more is confirmed than before.
ObjectChunks == {"v", "w"}

IsV(c) == c = "v"

\* No object.
UndefinedObject == [defined |-> FALSE, confirmed |-> 0]

\* parsePartialJson: undefined while nothing is confirmed, otherwise the
\* object confirmed so far.
ParsePartialJson(text) ==
    IF SelectSeq(text, IsV) = <<>> THEN UndefinedObject
    ELSE [defined |-> TRUE, confirmed |-> Len(SelectSeq(text, IsV))]

InitObject ==
    /\ ChatUnused
    /\ textCall = Unused /\ submission = Unused /\ registry = Unused
    /\ decoder = Unused /\ reducer = Unused /\ smooth = Unused
    /\ useObject = [data |-> UndefinedObject, error |-> "undefined",
                    isLoading |-> FALSE, abortControllerRef |-> "null",
                    pc |-> "idle", aborted |-> FALSE,
                    accumulatedText |-> <<>>,
                    latestObject |-> UndefinedObject,
                    calls |-> 0, op |-> "none"]

\* setInput(input) up to the await of fetch.
ObjectSetInput ==
    /\ useObject.pc \in {"idle", "done"}
    /\ useObject.calls < MaxCalls
    /\ useObject' = [useObject EXCEPT
                        !.isLoading = TRUE,
                        !.abortControllerRef = "controller",
                        !.pc = "fetch", !.aborted = FALSE,
                        !.calls = @ + 1, !.op = "setInput"]
    /\ UNCHANGED objectFrame

\* setInput after the try block has thrown err: catch and finally.
ObjectThrown(err, op) ==
    /\ useObject' = [useObject EXCEPT
                        !.error = err, !.isLoading = FALSE,
                        !.abortControllerRef = "null",
                        !.pc = "done", !.op = op]
    /\ UNCHANGED objectFrame

\* fetch rejects: the network fails.
ObjectFetchFailed ==
    /\ useObject.pc = "fetch" /\ ~useObject.aborted
    /\ ObjectThrown("Error", "fetchFailed")

\* fetch rejects with an AbortError: the signal is aborted.
ObjectFetchAborted ==
    /\ useObject.pc = "fetch" /\ useObject.aborted
    /\ ObjectThrown("AbortError", "fetchAborted")

\* !response.ok, or response.body == null: throw.
ObjectResponseNotOk ==
    /\ useObject.pc = "fetch" /\ ~useObject.aborted
    /\ ObjectThrown("Error", "responseNotOk")

\* The response is ok: pipeTo starts to consume the body and is not
\* awaited; setError(undefined), then finally.
ObjectResponseOk ==
    /\ useObject.pc = "fetch" /\ ~useObject.aborted
    /\ useObject' = [useObject EXCEPT
                        !.accumulatedText = <<>>,
                        !.latestObject = UndefinedObject,
                        !.error = "undefined", !.isLoading = FALSE,
                        !.abortControllerRef = "null",
                        !.pc = "stream", !.op = "responseOk"]
    /\ UNCHANGED objectFrame

\* write(chunk) of the WritableStream.
ObjectWrite(chunk) ==
    /\ useObject.pc = "stream" /\ ~useObject.aborted
    /\ Len(useObject.accumulatedText) < MaxChunks
    /\ LET text == Append(useObject.accumulatedText, chunk)
           currentObject == ParsePartialJson(text)
       IN  useObject' =
               IF useObject.latestObject # currentObject
               THEN [useObject EXCEPT !.accumulatedText = text,
                                      !.latestObject = currentObject,
                                      !.data = currentObject,
                                      !.op = "write"]
               ELSE [useObject EXCEPT !.accumulatedText = text,
                                      !.op = "write"]
    /\ UNCHANGED objectFrame

\* The body ends.
ObjectClose ==
    /\ useObject.pc = "stream" /\ ~useObject.aborted
    /\ useObject' = [useObject EXCEPT !.pc = "done", !.op = "close"]
    /\ UNCHANGED objectFrame

\* stop(): abortControllerRef.current?.abort(), then the ref is null.
ObjectStop ==
    /\ useObject' = [useObject EXCEPT
                        !.aborted = IF useObject.abortControllerRef = "null"
                                    THEN @ ELSE TRUE,
                        !.abortControllerRef = "null",
                        !.op = "stop"]
    /\ UNCHANGED objectFrame

NextObject ==
    \/ ObjectSetInput
    \/ ObjectFetchFailed
    \/ ObjectFetchAborted
    \/ ObjectResponseNotOk
    \/ ObjectResponseOk
    \/ \E chunk \in ObjectChunks : ObjectWrite(chunk)
    \/ ObjectClose
    \/ ObjectStop

SpecObject == InitObject /\ [][NextObject]_vars

\* ---------------------------------------------------- provider registry
\* DefaultProviderRegistry.  An id is a sequence of tokens, ":" is the
\* colon.  providers is the object this.providers: its own properties are
\* the registered ids; as every object literal it also has the properties
\* it inherits from Object.prototype, of which "constructor" is one.
\* registered lists the calls of registerProvider in order.
IdTokens == {"a", "m", "constructor", ":"}

ModelIdStrings == UNION {[1..k -> IdTokens] : k \in 0..MaxIdLen}

RegisteredIds == {<<"a">>, <<"m">>, <<"constructor">>}

\* The providers: p1 has the model "m" only, p2 has a model for every id,
\* p3 has no languageModel method.
Providers == {"p1", "p2", "p3"}

NoModel == [kind |-> "undefined"]

\* provider.languageModel?.(modelId)
ProviderLanguageModel(provider, modelId) ==
    CASE provider = "p1" ->
            IF modelId = <<"m">>
            THEN [kind |-> "model", of |-> "p1", modelId |-> modelId]
            ELSE NoModel
      [] provider = "p2" ->
            [kind |-> "model", of |-> "p2", modelId |-> modelId]
      [] OTHER -> NoModel

\* The properties that an object literal inherits.
InheritedKeys == {<<"constructor">>}

\* this.providers[id]
ProvidersGet(providers, id) ==
    IF id \in DOMAIN providers THEN providers[id]
    ELSE IF id \in InheritedKeys THEN "Object"
    ELSE "undefined"

\* this.providers[id] = provider
ProvidersPut(providers, id, provider) ==
    [k \in DOMAIN providers \cup {id} |->
        IF k = id THEN provider ELSE providers[k]]

\* id.indexOf(':'), counted from 1; 0 when there is none.
IndexOfColon(id) ==
    IF \E i \in DOMAIN id : id[i] = ":"
    THEN CHOOSE i \in DOMAIN id :
             /\ id[i] = ":"
             /\ \A j \in 1..(i - 1) : id[j] # ":"
    ELSE 0

\* languageModel(id): the model, or the error thrown.
LanguageModel(providers, id) ==
    LET index == IndexOfColon(id) IN
    IF index = 0 THEN [kind |-> "NoSuchModelError"]
    ELSE LET providerId == SubSeq(id, 1, index - 1)
             modelId == SubSeq(id, index + 1, Len(id))
             provider == ProvidersGet(providers, providerId)
         IN  IF provider = "undefined"
             THEN [kind |-> "NoSuchProviderError"]
             ELSE LET model == ProviderLanguageModel(provider, modelId) IN
                  IF model = NoModel THEN [kind |-> "NoSuchModelError"]
                  ELSE model

InitRegistry ==
    /\ ChatUnused
    /\ textCall = Unused /\ submission = Unused /\ useObject = Unused
    /\ decoder = Unused /\ reducer = Unused /\ smooth = Unused
    /\ registry = [providers |-> <<>>, registered |-> <<>>,
                   op |-> "new", id |-> <<>>, result |-> NoModel]

RegisterProvider(id, provider) ==
    /\ Len(registry.registered) < MaxRegs
    /\ registry' =
           [registry EXCEPT
               !.providers = ProvidersPut(@, id, provider),
               !.registered = Append(@, [id |-> id, provider |-> provider]),
               !.op = "registerProvider", !.id = id, !.result = NoModel]
    /\ UNCHANGED registryFrame

RegistryLanguageModel(id) ==
    /\ registry' =
           [registry EXCEPT
               !.op = "languageModel", !.id = id,
               !.result = LanguageModel(registry.providers, id)]
    /\ UNCHANGED registryFrame

NextRegistry ==
    \/ \E id \in RegisteredIds, provider \in Providers :
          RegisterProvider(id, provider)
    \/ \E id \in ModelIdStrings : RegistryLanguageModel(id)

SpecRegistry == InitRegistry /\ [][NextRegistry]_vars

\* -------------------------------------------- chunk codec, stream decoder
\* The wire format: one line per event, a type tag, a colon, the payload
\* and a newline.  A body is a sequence of characters; "\n" is the newline.
\* The payload of an event is one character here.
WireEvents ==
    [type : {"text-delta"}, v : {"x", "y"}]
        \cup [type : {"data"}, v : {"x"}]
        \cup [type : {"finish"}, v : {"s"}]

TagOf(type) ==
    CASE type = "text-delta" -> "0"
      [] type = "data" -> "2"
      [] type = "finish" -> "d"

\* encode(event) -> line
Encode(ev) == <<TagOf(ev.type), ":", ev.v, "\n">>

RECURSIVE EncodeAll(_)
EncodeAll(evs) ==
    IF evs = <<>> THEN <<>> ELSE Encode(Head(evs)) \o EncodeAll(Tail(evs))

\* decode(line) -> event | DecodeError, for a line without its newline.
Decode(line) ==
    IF Len(line) = 3 /\ line[2] = ":" /\ line[1] \in {"0", "2", "d"}
    THEN [type |-> CASE line[1] = "0" -> "text-delta"
                     [] line[1] = "2" -> "data"
                     [] line[1] = "d" -> "finish",
          v |-> line[3]]
    ELSE [type |-> "DecodeError", v |-> "-"]

\* The text is split on newline: the complete lines, and the trailing
\* partial line.
RECURSIVE SplitLines(_, _, _)
SplitLines(text, line, lines) ==
    IF text = <<>> THEN [lines |-> lines, partial |-> line]
    ELSE IF Head(text) = "\n"
    THEN SplitLines(Tail(text), <<>>, Append(lines, line))
    ELSE SplitLines(Tail(text), Append(line, Head(text)), lines)

\* The events of the lines that decode; a line that does not is dropped.
RECURSIVE DecodeLines(_)
DecodeLines(lines) ==
    IF lines = <<>> THEN <<>>
    ELSE LET ev == Decode(Head(lines)) IN
         IF ev.type = "DecodeError" THEN DecodeLines(Tail(lines))
         ELSE <<ev>> \o DecodeLines(Tail(lines))

\* The trailing partial line is decoded with the complete lines and
\* nothing is retained.
OnBuffer_DecodesPartialLine(fragment, bytes) ==
    LET split == SplitLines(fragment \o bytes, <<>>, <<>>) IN
    [events |-> DecodeLines(IF split.partial = <<>> THEN split.lines
                            ELSE Append(split.lines, split.partial)),
     fragment |-> <<>>]

\* One incoming buffer: the events of the complete lines of the retained
\* fragment followed by the buffer, and the fragment retained now.
OnBuffer(fragment, bytes) ==
    LET split == SplitLines(fragment \o bytes, <<>>, <<>>) IN
    [events |-> DecodeLines(split.lines), fragment |-> split.partial]

WireBodies == UNION {[1..k -> WireEvents] : k \in 0..MaxWire}

\* The body of a response is the encoding of a sequence of events; nothing
\* of it has arrived.
InitDecoder ==
    /\ ChatUnused
    /\ textCall = Unused /\ submission = Unused /\ useObject = Unused
    /\ registry = Unused /\ reducer = Unused /\ smooth = Unused
    /\ \E evs \in WireBodies :
          decoder = [sent |-> evs, body |-> EncodeAll(evs),
                     rest |-> EncodeAll(evs), fragment |-> <<>>,
                     out |-> <<>>, midLine |-> 0, pc |-> "reading"]

\* The next k characters of the body arrive as one buffer; midLine records
\* that some buffer has ended in the middle of a line.
DecoderRead(k) ==
    /\ decoder.pc = "reading"
    /\ k \in 1..Len(decoder.rest)
    /\ LET step == OnBuffer(decoder.fragment, SubSeq(decoder.rest, 1, k)) IN
       decoder' = [decoder EXCEPT
                      !.rest = SubSeq(@, k + 1, Len(@)),
                      !.fragment = step.fragment,
                      !.out = @ \o step.events,
                      !.midLine = IF step.fragment = <<>> THEN @ ELSE 1]
    /\ UNCHANGED decoderFrame

\* End of the source: a fragment that is left is discarded.
DecoderEnd ==
    /\ decoder.pc = "reading"
    /\ decoder.rest = <<>>
    /\ decoder' = [decoder EXCEPT !.fragment = <<>>, !.pc = "ended"]
    /\ UNCHANGED decoderFrame

NextDecoder ==
    \/ \E k \in 1..(4 * MaxWire) : DecoderRead(k)
    \/ DecoderEnd

SpecDecoder == InitDecoder /\ [][NextDecoder]_vars

\* ------------------------------------------------------ response reducer
\* The reducer on its own: the events of a session applied one by one to
\* the session's messages and side data, which start empty.
ReducerEvents ==
    [type : {"text-delta"}, v : {"Hello", " world"}]
        \cup [type : {"tool-call"}, v : {"c1"}]
        \cup [type : {"tool-result"}, v : {"c1", "c2"}]
        \cup [type : {"data"}, v : {"d1"}]
        \cup [type : {"step-finish", "finish", "error"}, v : {"-"}]

\* step-finish leaves the message in progress.
Reduce_StepFinishKeepsOpen(st, ev) ==
    CASE ev.type = "finish" -> [st EXCEPT !.open = FALSE]
      [] ev.type \in {"step-finish", "error"} -> st
      [] OTHER -> ReduceEvent(st, ev)

\* One event applied to the session: finish and step-finish mark the
\* in-progress message complete; error changes nothing that was merged.
Reduce(st, ev) ==
    CASE ev.type \in {"finish", "step-finish"} -> [st EXCEPT !.open = FALSE]
      [] ev.type = "error" -> st
      [] OTHER -> ReduceEvent(st, ev)

\* An event that follows an error event is reduced like any other.
Processed_AfterError(pc, st, ev) == Reduce(st, ev)

\* The session after an event has arrived: no event is processed once an
\* error event has terminated the reduction.
Processed(pc, st, ev) == IF pc = "failed" THEN st ELSE Reduce(st, ev)

InitReducer ==
    /\ ChatUnused
    /\ textCall = Unused /\ submission = Unused /\ useObject = Unused
    /\ registry = Unused /\ decoder = Unused /\ smooth = Unused
    /\ reducer = [st |-> [merged |-> <<>>, open |-> FALSE, data |-> <<>>],
                  seen |-> <<>>, error |-> "undefined", pc |-> "reducing"]

\* seen is the history of the events that arrived; error is what was
\* surfaced to the caller.
ReducerApply(ev, pc) ==
    /\ Len(reducer.seen) < MaxReduce
    /\ reducer' = [st |-> Processed(reducer.pc, reducer.st, ev),
                   seen |-> Append(reducer.seen, ev),
                   error |-> IF pc = "failed" THEN "Error"
                             ELSE reducer.error,
                   pc |-> pc]
    /\ UNCHANGED reducerFrame

\* An event after which the response goes on.
ReducerEvent(ev) ==
    /\ reducer.pc = "reducing"
    /\ ev.type \notin {"finish", "error"}
    /\ ReducerApply(ev, "reducing")

\* An event that the response carries after its error event.
ReducerAfterError(ev) ==
    /\ reducer.pc = "failed"
    /\ ReducerApply(ev, "failed")

\* finish ends the response.
ReducerFinish ==
    /\ reducer.pc = "reducing"
    /\ ReducerApply([type |-> "finish", v |-> "-"], "finished")

\* error terminates the stream.
ReducerError ==
    /\ reducer.pc = "reducing"
    /\ ReducerApply([type |-> "error", v |-> "-"], "failed")

NextReducer ==
    \/ \E ev \in ReducerEvents : ReducerEvent(ev)
    \/ \E ev \in ReducerEvents : ReducerAfterError(ev)
    \/ ReducerFinish
    \/ ReducerError

SpecReducer == InitReducer /\ [][NextReducer]_vars

\* ------------------------------------------------------------ smoothStream
\* Text is a sequence of characters; " " is the whitespace that /\s/
\* matches.
SmoothChars == {"a", "b", " "}

IsWhitespace(c) == c = " "

SmoothTexts == UNION {[1..k -> SmoothChars] : k \in 1..2}

TextDelta(text) == [type |-> "text-delta", textDelta |-> text]

SmoothChunks ==
    {TextDelta(t) : t \in SmoothTexts}
        \cup [type : {"tool-call", "finish", "step-finish"},
              textDelta : {<<>>}]

\* buffer.search(/\s/): the index of the first whitespace, 0 when none
\* (the code's -1).
RECURSIVE SearchWhitespace(_, _)
SearchWhitespace(buffer, i) ==
    IF i > Len(buffer) THEN 0
    ELSE IF IsWhitespace(buffer[i]) THEN i
    ELSE SearchWhitespace(buffer, i + 1)

\* The while loop of transform: the words enqueued and the buffer left.
RECURSIVE StreamWords(_, _)
StreamWords(buffer, emitted) ==
    LET whitespaceIndex == SearchWhitespace(buffer, 1) IN
    IF whitespaceIndex = 0 THEN [buffer |-> buffer, emitted |-> emitted]
    ELSE StreamWords(SubSeq(buffer, whitespaceIndex + 1, Len(buffer)),
                     Append(emitted,
                            TextDelta(SubSeq(buffer, 1, whitespaceIndex))))

\* step-finish is passed on like the other chunks: the buffer is kept.
Transform_StepFinishKeepsBuffer(buffer, chunk) ==
    IF chunk.type # "text-delta"
    THEN [buffer |-> buffer, emitted |-> <<chunk>>]
    ELSE StreamWords(buffer \o chunk.textDelta, <<>>)

\* transform(chunk, controller): the chunks enqueued and the buffer left.
Transform(buffer, chunk) ==
    IF chunk.type = "step-finish"
    THEN [buffer |-> <<>>,
          emitted |-> IF Len(buffer) > 0 THEN <<TextDelta(buffer), chunk>>
                      ELSE <<chunk>>]
    ELSE IF chunk.type # "text-delta"
    THEN [buffer |-> buffer, emitted |-> <<chunk>>]
    ELSE StreamWords(buffer \o chunk.textDelta, <<>>)

\* smoothStream(): let buffer = ''; nothing was written to the stream.
InitSmooth ==
    /\ ChatUnused
    /\ textCall = Unused /\ submission = Unused /\ useObject = Unused
    /\ registry = Unused /\ decoder = Unused /\ reducer = Unused
    /\ smooth = [buffer |-> <<>>, received |-> <<>>, emitted |-> <<>>,
                 pc |-> "open"]

\* One chunk is written to the stream: transform runs to its end before
\* the next chunk is taken.
SmoothTransform(chunk) ==
    /\ smooth.pc = "open"
    /\ Len(smooth.received) < MaxSmooth
    /\ LET t == Transform(smooth.buffer, chunk) IN
       smooth' = [smooth EXCEPT !.buffer = t.buffer,
                                !.received = Append(@, chunk),
                                !.emitted = @ \o t.emitted]
    /\ UNCHANGED smoothFrame

\* The input stream ends: the transformer has no flush, the stream closes
\* with what was enqueued.
SmoothClose ==
    /\ smooth.pc = "open"
    /\ smooth' = [smooth EXCEPT !.pc = "closed"]
    /\ UNCHANGED smoothFrame

NextSmooth ==
    \/ \E chunk \in SmoothChunks : SmoothTransform(chunk)
    \/ SmoothClose

SpecSmooth == InitSmooth /\ [][NextSmooth]_vars

\* ------------------------------------------------------------- claims
\* The operations that end a round trip (the return or throw of
\* processChatStream has been handled by triggerRequest).
RoundTripEnded ==
    /\ last.op \in {"FetchFailed", "FetchAborted", "ResponseNotOk",
                    "ResponseNoBody", "StreamFinish", "StreamError",
                    "ReadAborted", "TextChunk", "TextDone"}
    /\ last.ret # "pending"

\* A follow-up request has just been issued in the slot of the round trip.
FollowUpIssued ==
    /\ last.follow
    /\ req[last.slot].pc = "fetch"
    /\ req[last.slot].origin = "auto"

TrailingAssistants(msgs) ==
    Cardinality({i \in DOMAIN msgs :
                    \A j \in i..Len(msgs) : msgs[j].role = "assistant"})

\* (a) the last message is an assistant message, (b) it has at least one
\* tool invocation and all of them have a result, (c) fewer than maxSteps
\* trailing assistant messages.
ContinuationPredicate(msgs) ==
    /\ msgs # <<>>
    /\ msgs[Len(msgs)].role = "assistant"
    /\ msgs[Len(msgs)].toolInvocations # <<>>
    /\ \A i \in DOMAIN msgs[Len(msgs)].toolInvocations :
           msgs[Len(msgs)].toolInvocations[i].result = TRUE
    /\ TrailingAssistants(msgs) < maxSteps

\* C1 as stated: when a round trip has ended, a follow-up request is issued
\* if and only if (a), (b) and (c) hold of the message list.
C1_FollowUpIffPredicate ==
    RoundTripEnded => (FollowUpIssued <=> ContinuationPredicate(messages))

\* C1 amended: when a round trip has ended, a follow-up request is issued if
\* and only if the round trip did not end by an AbortError, the message list
\* is longer than it was when triggerRequest was called, and (a), (b) and
\* (c) hold of the message list.
C1_FollowUpIffGuarded ==
    RoundTripEnded =>
        (FollowUpIssued <=>
            /\ last.err # "AbortError"
            /\ Len(messages) > last.messageCount
            /\ ContinuationPredicate(messages))

\* A round trip that an automatic continuation started has ended and has
\* issued the next automatic request.
C1_Witness ==
    /\ RoundTripEnded
    /\ FollowUpIssued
    /\ last.origin = "auto"

\* The number of pending requests.
Pending == Cardinality({r \in Slots : InFlight(r)})

\* C2: a call chain that an append started, with no other call of append,
\* reload or addToolResult since, has issued at most maxSteps requests, while
\* it is pending and when it has ended; with maxSteps = 1 it has issued
\* exactly one when it has ended.
C2_RequestsWithinMaxSteps ==
    /\ \A r \in Slots :
           (InFlight(r) /\ req[r].chain = "append" /\ req[r].solo) =>
               (req[r].n >= 1 /\ req[r].n <= maxSteps)
    /\ (RoundTripEnded /\ ~FollowUpIssued /\ last.chain = "append"
            /\ last.solo) =>
           /\ last.n <= maxSteps
           /\ maxSteps = 1 => last.n = 1

\* An append has led to maxSteps = 3 requests, and the chain has ended with
\* a message ready for another step.
C2_Witness ==
    /\ RoundTripEnded /\ ~FollowUpIssued
    /\ last.chain = "append" /\ last.solo
    /\ maxSteps = 3 /\ last.n = 3
    /\ last.err = "none"

\* The last message is an assistant message with one tool invocation
\* lacking a result, the one with this id.
OneResultMissing(msgs, id) ==
    /\ msgs # <<>>
    /\ msgs[Len(msgs)].role = "assistant"
    /\ \E i \in DOMAIN msgs[Len(msgs)].toolInvocations :
           /\ msgs[Len(msgs)].toolInvocations[i].toolCallId = id
           /\ \A j \in DOMAIN msgs[Len(msgs)].toolInvocations :
                  msgs[Len(msgs)].toolInvocations[j].result <=> (j # i)

\* C3: addToolResult with the id of the one invocation that lacks a result
\* starts exactly one request, which carries the list with the result; and
\* with maxSteps = 1 a call chain that addToolResult started issues no
\* further request.
C3_ToolResultOneFollowUp ==
    /\ [][(last'.op = "AddToolResult"
             /\ OneResultMissing(messages, last'.arg)) =>
            /\ Pending' = Pending + 1
            /\ last'.slot \in Slots
            /\ ~InFlight(last'.slot)
            /\ req'[last'.slot].pc = "fetch"
            /\ req'[last'.slot].n = 1
            /\ IsAssistantMessageWithCompletedToolCalls(
                   req'[last'.slot].messages[Len(messages)])]_vars
    /\ [](\A r \in Slots :
            (InFlight(r) /\ req[r].chain = "tool" /\ maxSteps = 1) =>
                req[r].n = 1)
    /\ []((RoundTripEnded /\ last.chain = "tool" /\ maxSteps = 1) =>
            ~FollowUpIssued)

\* With maxSteps = 1 the request of addToolResult has ended with a new
\* assistant message whose tool invocations all have results.
C3_Witness ==
    /\ RoundTripEnded
    /\ last.chain = "tool" /\ maxSteps = 1
    /\ last.op = "StreamFinish"
    /\ Len(messages) > last.messageCount
    /\ IsAssistantMessageWithCompletedToolCalls(Last(messages))
    /\ ~FollowUpIssued

\* addToolResult attaches a result: the last message is an assistant
\* message with an invocation of that id.
Attaches(msgs, id) ==
    /\ msgs # <<>>
    /\ msgs[Len(msgs)].role = "assistant"
    /\ \E i \in DOMAIN msgs[Len(msgs)].toolInvocations :
           msgs[Len(msgs)].toolInvocations[i].toolCallId = id

\* C4: addToolResult issues a request exactly when it attaches a result and
\* all invocations of the last message have a result afterwards.
C4_ToolResultSubmitsIffAttachedAndReady ==
    [][last'.op = "AddToolResult" =>
          ((Pending' = Pending + 1) <=>
              /\ Attaches(messages, last'.arg)
              /\ IsAssistantMessageWithCompletedToolCalls(Last(messages')))]_vars

\* A request starts in a slot: by a caller operation or as a follow-up.
Starts(r) ==
    /\ req'[r].pc = "fetch"
    /\ req[r].pc # "fetch" \/ req'[r].n # req[r].n

\* C5: a request that addToolResult or the auto-submit starts, starts when
\* no other request of the session is pending.
C5_AutomaticRequestsNeverOverlap ==
    [][\A r \in Slots :
          (Starts(r) /\ req'[r].origin \in {"tool", "auto"}) =>
              \A q \in Slots \ {r} : ~InFlight(q)]_vars

\* C6: when fetch rejects, the status is not ok or the body is missing, the
\* message list is the snapshot previousMessages, or is left as it is with
\* keepLastMessageOnError.
C6_RestoredBeforeAnyBytes ==
    [][last'.op \in {"FetchFailed", "FetchAborted", "ResponseNotOk",
                     "ResponseNoBody"} =>
          messages' = IF keepLastMessageOnError THEN messages
                      ELSE req[last'.slot].previousMessages]_vars

\* C7: when the response fails after an update of it has been published,
\* the message list is left as it is and the error slot holds the error.
C7_PartialContentKeptErrorSet ==
    [][(last'.op = "StreamError" /\ req[last'.slot].nev > 0) =>
          /\ messages' = messages
          /\ error' = "Error"]_vars

CallerOps ==
    {"Init", "Append", "Reload", "AddToolResult", "SetMessages", "Stop"}

\* C8: stop() leaves the message list and the side data as they are and
\* aborts the request whose controller the ref holds; the only step a
\* streaming request takes after that is the end of its round trip, which
\* leaves the message list and the side data as they are (no rollback, no
\* further update) and sets isLoading to false.
C8_StopKeepsPartialContent ==
    [][/\ last'.op = "Stop" =>
            /\ messages' = messages /\ streamData' = streamData
            /\ \A r \in Slots :
                   (abortControllerRef[last'.handle] = r /\ InFlight(r)) =>
                       req'[r].aborted
       /\ \A r \in Slots :
            (req[r].pc = "stream" /\ req[r].aborted
                /\ last'.slot = r /\ last'.op \notin CallerOps) =>
               /\ last'.op = "ReadAborted"
               /\ messages' = messages /\ streamData' = streamData
               /\ isLoading' = FALSE
               /\ ~InFlight(r)']_vars

\* stop() was called after two updates of the response; the request has
\* ended and the content of the two updates is in the list.
C8_Witness ==
    /\ last.op = "ReadAborted"
    /\ ~isLoading /\ ~Busy
    /\ messages # <<>>
    /\ Last(messages).role = "assistant"
    /\ Len(Last(messages).content) = 2

\* C9: a round trip that ends by an AbortError leaves the error slot as it
\* is (undefined, when there was no other call of append, reload or
\* addToolResult since its call chain started), does not call onError, and
\* its call of triggerRequest returns null.
C9_AbortNotSurfaced ==
    [][last'.err = "AbortError" =>
          /\ error' = error
          /\ last'.solo => error' = "undefined"
          /\ ~last'.onError
          /\ last'.ret = "null"]_vars

\* A streaming request has been stopped and has ended.
C9_Witness ==
    /\ last.op = "ReadAborted" /\ last.err = "AbortError"
    /\ last.solo
    /\ error = "undefined"

\* C10: isLoading is true only while a request is pending.
C10_LoadingOnlyWhilePending == isLoading => Busy

\* A round trip has ended (finally has set isLoading to false) and its
\* follow-up request, which has set isLoading again, is pending.
C10_Witness ==
    /\ RoundTripEnded /\ FollowUpIssued
    /\ isLoading /\ Busy

\* C11: a session that is loading or has a pending request becomes idle
\* with isLoading false (the response stream terminates), and isLoading is
\* false whenever a round trip has ended without a follow-up request,
\* whether it succeeded, failed or was cancelled.
C11_LoadingReturnsToFalse ==
    /\ (isLoading \/ Busy) ~> (~isLoading /\ ~Busy)
    /\ []((RoundTripEnded /\ ~FollowUpIssued) => ~isLoading)

\* A request was cancelled while its response was streaming, and the
\* session is idle with isLoading false.
C11_Witness ==
    /\ last.op = "ReadAborted"
    /\ last.n = 1
    /\ ~Busy /\ ~isLoading
    /\ Len(messages) = 2

\* C12: after a round trip has ended by an error that is not an abort, the
\* session becomes idle with the error in the error slot.
C12_FailureLeadsToErrorAtIdle ==
    (RoundTripEnded /\ last.err = "Error") ~> (~Busy /\ error = "Error")

\* C13: after a round trip that has ended normally, with no other call of
\* append, reload, addToolResult or setMessages since its call chain
\* started (so that no request overlaps it), the error slot is undefined.
C13_SuccessClearsError ==
    (RoundTripEnded /\ last.err = "none" /\ last.solo) =>
        error = "undefined"

\* A round trip has ended normally, with no other call since its call
\* started; the error slot held an error when the call was made and is
\* undefined.
C13_Witness ==
    /\ RoundTripEnded /\ last.err = "none" /\ last.solo
    /\ ~last.follow
    /\ last.errorBefore = "Error"
    /\ error = "undefined"

C15_ReloadDropsLastAssistant ==
    [][last'.op = "Reload" =>
          IF MessagesOf(last'.handle) = <<>>
          THEN /\ Pending' = Pending
               /\ last'.ret = "null"
               /\ UNCHANGED <<cached, messages, streamData, isLoading,
                              error, abortControllerRef>>
          ELSE /\ Pending' = Pending + 1
               /\ last'.slot \in Slots
               /\ ~InFlight(last'.slot)
               /\ req'[last'.slot].pc = "fetch"
               /\ req'[last'.slot].messages =
                      LET pre == MessagesOf(last'.handle) IN
                      IF pre[Len(pre)].role = "assistant"
                      THEN SubSeq(pre, 1, Len(pre) - 1)
                      ELSE pre]_vars

\* reload has dropped the last (assistant) message of a list that ends
\* with two assistant messages.
C15_Witness ==
    /\ last.op = "Reload" /\ last.slot \in Slots
    /\ last.messageCount = 3
    /\ Len(messages) = 2
    /\ messages[2].role = "assistant"

\* C16: setMessages publishes the given list, or the result of the given
\* function on the current list, starts and ends no request, and leaves
\* streamData, isLoading and error as they are.
C16_SetMessagesReplacesList ==
    [][last'.op = "SetMessages" =>
          /\ messages' =
                 IF last'.arg.kind = "list" THEN last'.arg.v
                 ELSE LET pre == MessagesOf(last'.handle) IN
                      SubSeq(pre, 1, Len(pre) - 1)
          /\ \A r \in Slots :
                 /\ req'[r].pc = req[r].pc
                 /\ req'[r].n = req[r].n
                 /\ req'[r].body = req[r].body
          /\ UNCHANGED <<streamData, isLoading, error>>]_vars

\* setMessages has replaced a list of two messages by a list of one
\* message while a response was streaming.
C16_Witness ==
    /\ last.op = "SetMessages"
    /\ last.arg.kind = "list"
    /\ messages = <<UserMessage>>
    /\ isLoading
    /\ \E r \in Slots : req[r].pc = "stream" /\ Len(req[r].merged) = 1

\* What useChat returns through hook h.
Observed(h) ==
    [messages |-> MessagesOf(h), data |-> streamData,
     isLoading |-> isLoading, error |-> error]

\* C17: any two hooks of the session observe the same messages, streamData,
\* isLoading and error.
C17_HandlesObserveSameState ==
    \A h1 \in handles, h2 \in handles : Observed(h1) = Observed(h2)

\* C18: stop() through any hook of the session aborts every request of the
\* session that is pending.
C18_StopAbortsEveryPendingRequest ==
    [][last'.op = "Stop" =>
          \A r \in Slots : InFlight(r) => req'[r].aborted]_vars

UserCount(msgs) ==
    Cardinality({i \in DOMAIN msgs : msgs[i].role = "user"})

\* C19: when every call is an append and every response ends normally, the
\* idle session holds the user message of every append, as after any
\* sequential execution of the calls, whether or not the requests
\* overlapped.
C19_OverlappingAppendsLoseNothing ==
    ~Busy => UserCount(messages) = calls

IsPrefix(s, t) ==
    /\ Len(s) <= Len(t)
    /\ \A i \in DOMAIN s : s[i] = t[i]

\* C20: a step of a response leaves in streamData the data that was there
\* when the request started, followed by the data values received in the
\* response so far, and drops no value that was in streamData.
C20_SideDataKeepsEarlierValues ==
    [][\A r \in Slots :
          (last'.slot = r /\ last'.op \in {"StreamPart", "StreamFinish",
                                          "TextChunk", "TextDone"}) =>
              /\ IsPrefix(req[r].existingData, streamData')
              /\ IsPrefix(streamData, streamData')]_vars

\* C21: append publishes the list as it was with the given message, which
\* has an id (the given one if it had one), added at the end; the messages
\* that were in the list are unchanged and in the same order; the request
\* that carries this list is pending and nothing of its response has been
\* handled when the list is published.
C21_AppendAddsAtEndBeforeRequest ==
    [][last'.op = "Append" =>
          LET pre == MessagesOf(last'.handle) IN
          /\ messages' = pre \o <<Last(messages')>>
          /\ Last(messages').role = "user"
          /\ Last(messages').id # "undefined"
          /\ last'.arg # "undefined" => Last(messages').id = last'.arg
          /\ req'[last'.slot].pc = "fetch"
          /\ req'[last'.slot].messages = messages'
          /\ req'[last'.slot].nev = 0]_vars

\* append of a message without id has added it, with an id, behind a user
\* message and an assistant message.
C21_Witness ==
    /\ last.op = "Append"
    /\ last.arg = "undefined"
    /\ Len(messages) = 3
    /\ messages[2].role = "assistant"
    /\ messages[3].role = "user" /\ messages[3].id = "id"

RECURSIVE Concat(_)
Concat(chunks) ==
    IF chunks = <<>> THEN "" ELSE Head(chunks) \o Concat(Tail(chunks))

\* C22: in text mode there is one update per chunk read, and the update
\* for the k-th chunk is one assistant message whose content is the
\* concatenation of the chunks 1..k in the order read, with no data.
C22_TextModePublishesRunningText ==
    /\ Len(textCall.updates) = Len(textCall.read)
    /\ \A k \in DOMAIN textCall.updates :
          /\ Len(textCall.updates[k].merged) = 1
          /\ textCall.updates[k].merged[1].role = "assistant"
          /\ textCall.updates[k].merged[1].content =
                 Concat(SubSeq(textCall.read, 1, k))
          /\ textCall.updates[k].data = <<>>

\* Three chunks have been read and published, and more than one kind of
\* chunk was among them.
C22_Witness ==
    /\ textCall.pc = "returned"
    /\ Len(textCall.updates) = 3
    /\ textCall.updates[3].merged[1].content = "aba"

\* C23: all updates of one response are for a message with the same id.
C23_InProgressMessageKeepsId ==
    \A j \in DOMAIN textCall.updates, k \in DOMAIN textCall.updates :
        textCall.updates[j].merged[1].id = textCall.updates[k].merged[1].id

\* An attachment that has a name, a content type and a url.
ResolvedAttachment(a) ==
    /\ a.name # "undefined"
    /\ a.contentType # "undefined"
    /\ a.url # "undefined"

\* C24: a call of append or handleSubmit publishes nothing and starts no
\* request while it awaits its attachments; when it proceeds every file has
\* been read and the message it adds carries one attachment with name,
\* content type and url per file; when the reading of a file fails (or the
\* attachments are of no known kind) the call ends, no request starts and
\* the message list is unchanged.
C24_SubmissionAwaitsAttachments ==
    [][/\ (\E r \in Slots : Starts(r) /\ req'[r].origin # "auto") =>
            /\ last'.op = "SubmissionProceeds"
            /\ submission.pc = "resolving" /\ submission'.pc = "none"
            /\ \A i \in DOMAIN submission.attachments.files :
                   submission.attachments.kind = "FileList" =>
                       submission.attachments.files[i].state = "loaded"
            /\ LET pre == MessagesOf(submission.handle) IN
               \/ /\ messages' = pre
                  /\ submission.op = "handleSubmit"
                  /\ submission.allowEmptySubmit
               \/ /\ Len(messages') > 0
                  /\ messages' = pre \o <<Last(messages')>>
                  /\ LET att == Last(messages').experimental_attachments IN
                     /\ Len(att) = Len(submission.attachments.files)
                     /\ \A i \in DOMAIN att : ResolvedAttachment(att[i])
       /\ last'.op \in {"AppendCall", "HandleSubmitCall", "HandleSubmitEmpty",
                        "FileLoaded", "FileError", "InvalidAttachments"} =>
            /\ UNCHANGED <<cached, messages>>
            /\ Pending' = Pending
       /\ last'.op \in {"FileError", "InvalidAttachments"} =>
            /\ submission'.pc = "none"
            /\ last'.ret = "rejected"]_vars

\* handleSubmit has proceeded with two files read, while an earlier request
\* is still pending.
C24_Witness ==
    /\ last.op = "SubmissionProceeds"
    /\ last.arg = "handleSubmit"
    /\ Len(messages) > 0
    /\ Len(Last(messages).experimental_attachments) = 2
    /\ Last(messages).experimental_attachments[2].url = "data:f2"
    /\ Pending = 2

\* C25: isLoading of useObject is true as long as the request of setInput
\* is pending: from the call until the response has been consumed, has
\* failed or has been aborted.
C25_ObjectLoadingWhileRequestPending ==
    useObject.pc \in {"fetch", "stream"} => useObject.isLoading

\* C26: stop() of useObject while the request is pending aborts it; from
\* then on no object is published and the object is kept.
C26_ObjectStopAbortsRequest ==
    [][/\ (useObject'.op = "stop" /\ useObject.pc \in {"fetch", "stream"}) =>
              useObject'.aborted
       /\ useObject.aborted => useObject'.data = useObject.data]_vars

\* The provider of the last call of registerProvider with this id, if any.
LastRegistered(id) ==
    LET at == {i \in DOMAIN registry.registered :
                  registry.registered[i].id = id}
    IN  IF at = {} THEN "none"
        ELSE registry.registered[CHOOSE i \in at : \A j \in at : j <= i]
                 .provider

\* C27: languageModel(id) after any calls of registerProvider: an id
\* without colon gives NoSuchModelError; for id = providerId:modelId with
\* no colon in providerId, it gives NoSuchProviderError when providerId was
\* never registered, and otherwise what the provider registered last under
\* providerId returns for modelId, NoSuchModelError when that is no model.
C27_RegistryResolvesIds ==
    registry.op = "languageModel" =>
        LET id == registry.id
            colons == {i \in DOMAIN id : id[i] = ":"}
        IN  IF colons = {}
            THEN registry.result.kind = "NoSuchModelError"
            ELSE \A i \in colons :
                    (\A j \in colons : i <= j) =>
                        LET provider ==
                                LastRegistered(SubSeq(id, 1, i - 1))
                            modelId == SubSeq(id, i + 1, Len(id))
                        IN  IF provider = "none"
                            THEN registry.result.kind = "NoSuchProviderError"
                            ELSE IF ProviderLanguageModel(provider, modelId)
                                        = NoModel
                            THEN registry.result.kind = "NoSuchModelError"
                            ELSE registry.result =
                                     ProviderLanguageModel(provider, modelId)

\* C28: however the body is split into buffers, the events the decoder
\* has yielded when the source has ended are those it yields for the whole
\* body in one buffer, in the same order, and before the end they are the
\* first of them.
C28_ChunkBoundaryInvariance ==
    LET whole == OnBuffer(<<>>, decoder.body).events IN
    /\ decoder.pc = "ended" => decoder.out = whole
    /\ decoder.pc = "reading" => IsPrefix(decoder.out, whole)

\* A body of two different events has arrived in buffers of which one
\* ended in the middle of a line, and the source has ended.
C28_Witness ==
    /\ decoder.pc = "ended"
    /\ Len(decoder.sent) = 2
    /\ decoder.midLine = 1
    /\ decoder.out = decoder.sent
    /\ decoder.sent[1] # decoder.sent[2]

\* The events seen are text-deltas followed by one finish.
DeltasThenFinish(seen) ==
    /\ Len(seen) >= 2
    /\ Last(seen).type = "finish"
    /\ \A i \in 1..(Len(seen) - 1) : seen[i].type = "text-delta"

DeltaValues(seen) == [i \in 1..(Len(seen) - 1) |-> seen[i].v]

\* C29: text-deltas followed by a finish, reduced against an empty
\* session, leave exactly one message; it is an assistant message and its
\* content is the concatenation of the deltas in order.
C29_DeltasReduceToOneMessage ==
    DeltasThenFinish(reducer.seen) =>
        /\ Len(reducer.st.merged) = 1
        /\ reducer.st.merged[1].role = "assistant"
        /\ reducer.st.merged[1].content = DeltaValues(reducer.seen)
        /\ Concat(reducer.st.merged[1].content)
              = Concat(DeltaValues(reducer.seen))

\* "Hello", " world" and finish were reduced: one message, "Hello world".
C29_Witness ==
    /\ reducer.pc = "finished"
    /\ Len(reducer.seen) = 3
    /\ DeltasThenFinish(reducer.seen)
    /\ DeltaValues(reducer.seen) = <<"Hello", " world">>
    /\ Len(reducer.st.merged) = 1
    /\ Concat(reducer.st.merged[1].content) = "Hello world"

Invoked(msgs, id) == \E i \in DOMAIN msgs : HasInvocation(msgs[i], id)

\* C31: the reduction of a tool-result whose toolCallId no message has an
\* invocation for leaves the message list as it was, raises no error, and
\* leaves the reduction going.
C31_UnmatchedToolResultIgnored ==
    [][\A ev \in ReducerEvents :
          (/\ reducer.pc = "reducing"
           /\ reducer'.seen = Append(reducer.seen, ev)
           /\ ev.type = "tool-result"
           /\ ~Invoked(reducer.st.merged, ev.v))
          => /\ reducer'.st.merged = reducer.st.merged
             /\ reducer'.error = "undefined"
             /\ reducer'.pc = "reducing"]_vars

\* A tool-call c1, then a tool-result for c2, then a text-delta: the
\* invocation has no result and the text-delta was reduced.
C31_Witness ==
    /\ Len(reducer.seen) = 3
    /\ reducer.seen[1] = [type |-> "tool-call", v |-> "c1"]
    /\ reducer.seen[2] = [type |-> "tool-result", v |-> "c2"]
    /\ reducer.seen[3].type = "text-delta"
    /\ Len(reducer.st.merged) = 1
    /\ reducer.st.merged[1].toolInvocations
          = <<[toolCallId |-> "c1", result |-> FALSE]>>
    /\ reducer.st.merged[1].content = <<reducer.seen[3].v>>
    /\ reducer.pc = "reducing"

\* C32: the error event ends the reduction with the error surfaced, and an
\* event that arrives after it changes neither the messages nor the side
\* data.
C32_ErrorTerminatesReduction ==
    [][/\ (reducer.pc = "reducing" /\ reducer'.pc = "failed")
              => reducer'.error = "Error"
       /\ reducer.pc = "failed"
              => /\ reducer'.st = reducer.st
                 /\ reducer'.error = "Error"
                 /\ reducer'.pc = "failed"]_vars

\* "Hello", error, " world": the message holds "Hello" only.
C32_Witness ==
    /\ Len(reducer.seen) = 3
    /\ reducer.seen[1] = [type |-> "text-delta", v |-> "Hello"]
    /\ reducer.seen[2].type = "error"
    /\ reducer.seen[3] = [type |-> "text-delta", v |-> " world"]
    /\ reducer.pc = "failed"
    /\ reducer.error = "Error"
    /\ Len(reducer.st.merged) = 1
    /\ reducer.st.merged[1].content = <<"Hello">>

\* C33: when a round trip has ended by an AbortError no follow-up request
\* is issued: the call chain is over, whatever the message list is.
C33_NoFollowUpAfterAbort ==
    (RoundTripEnded /\ last.err = "AbortError") =>
        /\ ~FollowUpIssued
        /\ ~InFlight(last.slot)

\* A round trip was cancelled when the list had grown by an assistant
\* message whose tool invocations all have results, with steps left.
C33_Witness ==
    /\ RoundTripEnded /\ last.err = "AbortError"
    /\ Len(messages) > last.messageCount
    /\ ContinuationPredicate(messages)
    /\ maxSteps > 1
    /\ ~Busy

\* A round trip has ended because its request failed before any of the
\* response was read.
RequestFailed ==
    /\ RoundTripEnded
    /\ last.op \in {"FetchFailed", "ResponseNotOk", "ResponseNoBody"}

\* C34: when a round trip has ended and the message list is not longer than
\* it was when the round trip was triggered, no follow-up request is issued
\* and the call chain is over; and a round trip whose request failed issues
\* no follow-up request, so that a caller action whose request fails has
\* caused one request.
C34_NoFollowUpWithoutNewMessages ==
    /\ (RoundTripEnded /\ Len(messages) <= last.messageCount) =>
           /\ ~FollowUpIssued
           /\ ~InFlight(last.slot)
    /\ RequestFailed =>
           /\ ~FollowUpIssued
           /\ ~InFlight(last.slot)
           /\ last.origin # "auto" => last.n = 1

\* The request that addToolResult sent for an assistant message whose tool
\* invocations all have results has failed, with steps left.
C34_Witness ==
    /\ RequestFailed
    /\ last.origin = "tool"
    /\ Len(messages) <= last.messageCount
    /\ ContinuationPredicate(messages)
    /\ maxSteps > 1
    /\ ~Busy

\* The message is as it was but for the results of its invocations with
\* this id, which it now has.
OnlyResultsOf(before, after, id) ==
    /\ [after EXCEPT !.toolInvocations = <<>>]
          = [before EXCEPT !.toolInvocations = <<>>]
    /\ Len(after.toolInvocations) = Len(before.toolInvocations)
    /\ \A j \in DOMAIN before.toolInvocations :
          IF before.toolInvocations[j].toolCallId = id
          THEN /\ after.toolInvocations[j].toolCallId = id
               /\ after.toolInvocations[j].result = TRUE
          ELSE after.toolInvocations[j] = before.toolInvocations[j]

\* C35: the list that addToolResult publishes has the length and the
\* messages of the list it read, in the same order, but for the last
\* message when that is an assistant message with tool invocations: of it,
\* only the results of the invocations with the given toolCallId differ.
C35_AddToolResultChangesOnlyTheResult ==
    [][\A h \in handles, id \in ToolIds :
          (/\ last'.op = "AddToolResult"
           /\ last'.handle = h
           /\ last'.arg = id)
          => LET before == MessagesOf(h) IN
             /\ Len(messages') = Len(before)
             /\ \A i \in 1..(Len(before) - 1) : messages'[i] = before[i]
             /\ before # <<>> =>
                   IF /\ Last(before).role = "assistant"
                      /\ Last(before).toolInvocations # <<>>
                   THEN OnlyResultsOf(Last(before), Last(messages'), id)
                   ELSE Last(messages') = Last(before)]_vars

\* An assistant message with the invocations t1 and t2 was given the
\* result of t1: t2 has none.
C35_Witness ==
    /\ last.op = "AddToolResult"
    /\ last.arg = "t1"
    /\ Len(messages) = 2
    /\ messages[1].role = "user"
    /\ Last(messages).role = "assistant"
    /\ Last(messages).toolInvocations
          = <<[toolCallId |-> "t1", result |-> TRUE],
              [toolCallId |-> "t2", result |-> FALSE]>>

\* C36: the list that a stream update publishes is the list sent with the
\* request followed by the messages reduced from the response so far,
\* whatever list was published before the update.
C36_StreamUpdateRebuildsList ==
    [][\A r \in Slots :
          (/\ last'.op \in {"StreamPart", "TextChunk"}
           /\ last'.slot = r
           /\ req'[r].pc = "stream")
          => /\ messages' = req[r].messages \o req'[r].merged
             /\ ConstructedMessagesPayload(
                    SubSeq(messages', 1, Len(req[r].body))) = req[r].body
             /\ IsPrefix(req[r].merged, req'[r].merged)
                   \/ Len(req'[r].merged) = Len(req[r].merged)]_vars

\* setMessages was called while the request of an append was pending (with
\* the empty list it emptied the published list), and the stream update
\* after it has published the message of the request and the assistant
\* message.
C36_Witness ==
    /\ last.op \in {"StreamPart", "TextChunk"}
    /\ calls = 2
    /\ req[last.slot].pc = "stream"
    /\ req[last.slot].origin = "append"
    /\ ~req[last.slot].solo
    /\ Len(req[last.slot].messages) = 1
    /\ Len(messages) = 2
    /\ messages = req[last.slot].messages \o req[last.slot].merged

\* The text of the text-delta chunks of a sequence of chunks, in order.
RECURSIVE TextOf(_)
TextOf(chunks) ==
    IF chunks = <<>> THEN <<>>
    ELSE (IF Head(chunks).type = "text-delta" THEN Head(chunks).textDelta
          ELSE <<>>) \o TextOf(Tail(chunks))

\* C37: when the input has ended, the text of the emitted text-delta
\* chunks is the text of the received ones.
C37_SmoothStreamLosesNoText ==
    smooth.pc = "closed" =>
        TextOf(smooth.emitted) = TextOf(smooth.received)

\* The chunks of the sequence that are not text-delta chunks.
Others(chunks) == SelectSeq(chunks, LAMBDA c : c.type # "text-delta")

\* The index in the sequence of its k-th chunk that is not a text-delta.
RECURSIVE IndexOfOther(_, _, _)
IndexOfOther(chunks, k, i) ==
    IF chunks[i].type # "text-delta"
    THEN IF k = 1 THEN i ELSE IndexOfOther(chunks, k - 1, i + 1)
    ELSE IndexOfOther(chunks, k, i + 1)

TextBefore(chunks, k) ==
    TextOf(SubSeq(chunks, 1, IndexOfOther(chunks, k, 1) - 1))

\* C38: the chunks that are not text-deltas are emitted as they were
\* received, and the text emitted before each of them is the text that was
\* received before it.
C38_SmoothStreamKeepsOrder ==
    /\ Others(smooth.emitted) = Others(smooth.received)
    /\ \A k \in 1..Len(Others(smooth.received)) :
          TextBefore(smooth.emitted, k) = TextBefore(smooth.received, k)

\* C39: the transform of a step-finish chunk emits the buffered text, if
\* there is any, as one text-delta, then the step-finish chunk, and leaves
\* the buffer empty; so the text emitted before a step-finish is the text
\* received before it.
C39_StepFinishFlushesBuffer ==
    [][(/\ Len(smooth'.received) = Len(smooth.received) + 1
        /\ Last(smooth'.received).type = "step-finish")
       => /\ smooth'.buffer = <<>>
          /\ smooth'.emitted =
                smooth.emitted
                   \o (IF smooth.buffer = <<>> THEN <<>>
                       ELSE <<TextDelta(smooth.buffer)>>)
                   \o <<Last(smooth'.received)>>
          /\ TextOf(smooth'.emitted) = TextOf(smooth.received)]_vars

\* "ab" was buffered when the step-finish came: it was emitted as one
\* text-delta before the step-finish.
C39_Witness ==
    /\ Len(smooth.received) = 2
    /\ smooth.received[1] = TextDelta(<<"a", "b">>)
    /\ smooth.received[2].type = "step-finish"
    /\ smooth.emitted = smooth.received
    /\ smooth.buffer = <<>>

====
